---------------------------- MODULE Spec2Model ----------------------------
(***************************************************************************)
(* Model of the scheduled-post subsystem of linkedin-mcp:                  *)
(*   src/src/linkedin_mcp/scheduler_db.py  (ScheduledPostsDB, run_scheduler)*)
(*   src/src/linkedin_mcp/tools/scheduler.py (schedule_post, cancel_...)    *)
(*                                                                         *)
(* Text values that SQLite compares (scheduled_time, the isoformat() of    *)
(* now) are sequences of characters, compared bytewise as SQLite's BINARY  *)
(* collation does.  A timestamp is written  d(Z | +0h:00 | -0h:00)  where  *)
(* the digit d stands for the fixed-width "YYYY-MM-DDTHH" field (fixed     *)
(* width, so bytewise order = numeric order) and the offset h is counted   *)
(* in the unit of d.  An instant is a number of these units.               *)
(*                                                                         *)
(* Optional values (Python None / SQL NULL) are sets: NULL is {} and       *)
(* a present value v is {v}.                                               *)
(***************************************************************************)
EXTENDS Integers, Sequences, FiniteSets, TLC

\* ------------------------------------------------------------------ bounds
\* number of distinct ids uuid4 can return; rows are never deleted, so this
\* is also the largest store
NumIds == 2
\* the clock runs over the instants 0..MaxClock
MaxClock == 1
\* number of linkedin-mcp-scheduler processes that may run at the same time
\* (a slot is free again for the next invocation when its pass has ended)
NumRuns == 2
\* largest store under which overlapping processes are explored
MaxRowsOverlap == 1
\* largest retry_count up to which direct calls of mark_failed are explored
MaxRetry == 2
\* a fixed bound on the length of a list result that a store can exceed
ListBound == 1

Ids == 1..NumIds
Runs == 1..NumRuns

\* ------------------------------------------------------------ option type
NULL == {}
Some(v) == {v}
The(o) == CHOOSE v \in o : TRUE

\* ------------------------------------------------------------------- text
\* byte values of the characters that occur in timestamps
Ord == [c \in {"+", "-", "0", "1", "2", "3", "4", "5", "6", "7", "8", "9", ":", "Z", "x"} |->
          CASE c = "+" -> 43 [] c = "-" -> 45
            [] c = "0" -> 48 [] c = "1" -> 49 [] c = "2" -> 50 [] c = "3" -> 51
            [] c = "4" -> 52 [] c = "5" -> 53 [] c = "6" -> 54 [] c = "7" -> 55
            [] c = "8" -> 56 [] c = "9" -> 57 [] c = ":" -> 58 [] c = "Z" -> 90
            [] c = "x" -> 120]

Digit == [n \in 0..9 |->
          CASE n = 0 -> "0" [] n = 1 -> "1" [] n = 2 -> "2" [] n = 3 -> "3"
            [] n = 4 -> "4" [] n = 5 -> "5" [] n = 6 -> "6" [] n = 7 -> "7"
            [] n = 8 -> "8" [] n = 9 -> "9"]

IsDigit(c) == Ord[c] >= 48 /\ Ord[c] <= 57
DigitVal(c) == Ord[c] - 48

\* SQLite  a <= b  on TEXT with the default BINARY collation (memcmp, then
\* the shorter string first)
RECURSIVE TextLeq(_, _)
TextLeq(a, b) ==
    IF a = <<>> THEN TRUE
    ELSE IF b = <<>> THEN FALSE
    ELSE IF Ord[Head(a)] < Ord[Head(b)] THEN TRUE
    ELSE IF Ord[Head(a)] > Ord[Head(b)] THEN FALSE
    ELSE TextLeq(Tail(a), Tail(b))

\* s without its first n characters
Drop(s, n) == SubSeq(s, n + 1, Len(s))

\* datetime.now(timezone.utc).isoformat() at instant t: the offset of an
\* aware UTC datetime is printed as +00:00
IsoFormat(t) == <<Digit[t]>> \o <<"+", "0", "0", ":", "0", "0">>

\* str.replace("Z", "+00:00")
RECURSIVE ReplaceZ(_)
ReplaceZ(s) ==
    IF s = <<>> THEN <<>>
    ELSE (IF Head(s) = "Z" THEN <<"+", "0", "0", ":", "0", "0">> ELSE <<Head(s)>>)
           \o ReplaceZ(Tail(s))

\* the offset part of an ISO string: [ok, aware, off]
ParseOffset(s) ==
    IF s = <<>> THEN [ok |-> TRUE, aware |-> FALSE, off |-> 0]
    ELSE IF /\ Len(s) = 6
            /\ s[1] \in {"+", "-"}
            /\ s[2] = "0" /\ IsDigit(s[3]) /\ s[4] = ":" /\ s[5] = "0" /\ s[6] = "0"
         THEN [ok |-> TRUE, aware |-> TRUE,
               off |-> (IF s[1] = "+" THEN 1 ELSE -1) * DigitVal(s[3])]
    ELSE [ok |-> FALSE, aware |-> FALSE, off |-> 0]

\* datetime.fromisoformat: [ok, aware, t]; t is the instant when aware and the
\* wall-clock reading when naive; ok = FALSE stands for ValueError
FromIsoFormat(s) ==
    IF s = <<>> \/ ~IsDigit(s[1]) THEN [ok |-> FALSE, aware |-> FALSE, t |-> 0]
    ELSE LET o == ParseOffset(Drop(s, 1))
         IN  [ok |-> o.ok, aware |-> o.aware, t |-> DigitVal(s[1]) - o.off]


\* ------------------------------------------------------------------ inputs
\* what a caller may pass to schedule_post besides the time
Inputs ==
    { [commentary |-> "",  url |-> NULL,        visibility |-> "PUBLIC"],
      [commentary |-> "b", url |-> Some("u"),   visibility |-> "CONNECTIONS"] }

\* the scheduled_time strings a caller may pass: 1Z and 1+00:00 (the same
\* instant), 0Z (never in the future), 1 (no offset) and x (not a timestamp)
SchedTimes ==
    { <<"1", "Z">>,
      <<"1", "+", "0", "0", ":", "0", "0">>,
      <<"0", "Z">>, <<"1">>, <<"x">> }

\* str(e) of the errors the publisher may raise
Errors == {"rate limited"}

\* str(e) of the error a failing UPDATE raises (sqlite3.OperationalError)
StorageErrors == {"database is locked"}

\* the values of the status column
Statuses == {"pending", "published", "failed", "cancelled"}

\* the status argument of list: omitted, or one of the statuses
StatusFilters == {NULL} \cup {Some(s) : s \in Statuses}

\* the limit argument of list: negative, zero, and up to the largest store
Limits == (-1)..NumIds

\* the urns a direct caller of mark_published may pass
Urns == {"urn:li:share:1"}

\* what a direct caller passes to add: 0-01:00 is one more way to write the
\* instant of 1Z and 1+00:00
DbInputs == {inp \in Inputs : inp.commentary = "b"}
DbTimes ==
    { <<"1", "Z">>,
      <<"1", "+", "0", "0", ":", "0", "0">>,
      <<"0", "-", "0", "1", ":", "0", "0">> }

VARIABLES
    clock,    \* the current UTC instant
    posts,    \* table scheduled_posts: the rows in rowid (insertion) order
    calls,    \* the publisher's log: one entry per create_post invocation
    pc,       \* pc[d]: position of scheduler process d in run_scheduler
    due,      \* due[d]: run_scheduler's local list `due`
    idx,      \* idx[d]: position of the for loop in due[d]
    result,   \* result[d]: outcome of the create_post call of the iteration
    cpc,      \* position of the server process inside ScheduledPostsDB.cancel
    cid,      \* cancel's argument post_id while it is in progress
    ret       \* what the last finished operation returned or printed: the
              \* operation, the id it was about, the row returned (res) or the
              \* rows returned (rows), whether it was an error response, and
              \* the message or printed line

vars == <<clock, posts, calls, pc, due, idx, result, cpc, cid, ret>>

\* --------------------------------------------------- ScheduledPostsDB (SQL)
\* SELECT * FROM scheduled_posts WHERE id = ? ... fetchone()
get(db, post_id) ==
    LET m == {k \in DOMAIN db : db[k].id = post_id}
    IN  IF m = {} THEN NULL ELSE Some(db[CHOOSE k \in m : \A j \in m : k <= j])

\* ORDER BY scheduled_time ASC: insertion of r into a sorted list after every
\* row that is <= r (rows that compare equal stay in rowid order)
RECURSIVE InsertSorted(_, _)
InsertSorted(r, rows) ==
    IF rows = <<>> THEN <<r>>
    ELSE IF TextLeq(Head(rows).scheduled_time, r.scheduled_time)
         THEN <<Head(rows)>> \o InsertSorted(r, Tail(rows))
         ELSE <<r>> \o rows

RECURSIVE OrderByScheduledTime(_)
OrderByScheduledTime(rows) ==
    IF rows = <<>> THEN <<>>
    ELSE InsertSorted(rows[Len(rows)],
                      OrderByScheduledTime(SubSeq(rows, 1, Len(rows) - 1)))

IsPending(r) == r.status = "pending"

\* add that does not store the url
add_without_url(db, post_id, created_at, commentary, scheduled_time, url, visibility) ==
    LET row == [id             |-> post_id,
                commentary     |-> commentary,
                url            |-> NULL,
                visibility     |-> visibility,
                scheduled_time |-> scheduled_time,
                status         |-> "pending",
                created_at     |-> created_at,
                published_at   |-> NULL,
                post_urn       |-> NULL,
                error_message  |-> NULL,
                retry_count    |-> 0]
    IN  IF get(db, post_id) # NULL
        THEN [db |-> db, raised |-> TRUE, res |-> NULL]
        ELSE [db |-> Append(db, row), raised |-> FALSE,
              res |-> get(Append(db, row), post_id)]

\* INSERT INTO scheduled_posts ...; the PRIMARY KEY refuses a second row with
\* the same id (sqlite3.IntegrityError)
add(db, post_id, created_at, commentary, scheduled_time, url, visibility) ==
    LET row == [id             |-> post_id,
                commentary     |-> commentary,
                url            |-> url,
                visibility     |-> visibility,
                scheduled_time |-> scheduled_time,
                status         |-> "pending",
                created_at     |-> created_at,
                published_at   |-> NULL,
                post_urn       |-> NULL,
                error_message  |-> NULL,
                retry_count    |-> 0]
    IN  IF get(db, post_id) # NULL
        THEN [db |-> db, raised |-> TRUE, res |-> NULL]
        ELSE [db |-> Append(db, row), raised |-> FALSE,
              res |-> get(Append(db, row), post_id)]

\* the due selection without the status filter
get_due_any_status(db, now) ==
    LET Due(r) == TextLeq(r.scheduled_time, now)
    IN  OrderByScheduledTime(SelectSeq(db, Due))

\* the due selection that also picks failed rows up again
get_due_retry(db, now) ==
    LET Due(r) == r.status \in {"pending", "failed"} /\ TextLeq(r.scheduled_time, now)
    IN  OrderByScheduledTime(SelectSeq(db, Due))

\* the due selection without ORDER BY: the rows come in rowid order
get_due_in_rowid_order(db, now) ==
    LET Due(r) == IsPending(r) /\ TextLeq(r.scheduled_time, now)
    IN  SelectSeq(db, Due)

\* SELECT ... WHERE status = 'pending' AND scheduled_time <= ? ORDER BY ...
get_due(db, now) ==
    LET Due(r) == IsPending(r) /\ TextLeq(r.scheduled_time, now)
    IN  OrderByScheduledTime(SelectSeq(db, Due))

\* LIMIT ?: SQLite takes a negative LIMIT as no limit
Limit(rows, limit) ==
    IF limit < 0 \/ limit >= Len(rows) THEN rows ELSE SubSeq(rows, 1, limit)

\* list that returns the rows in rowid order
list_in_rowid_order(db, status, limit) ==
    LET Matches(r) == r.status = The(status)
    IN  IF status # NULL /\ The(status) # ""
        THEN Limit(SelectSeq(db, Matches), limit)
        ELSE Limit(db, limit)

\* list, lines 65-78: `if status:` is false for None and for the empty
\* string; SELECT ... [WHERE status = ?] ORDER BY scheduled_time ASC LIMIT ?
list(db, status, limit) ==
    LET Matches(r) == r.status = The(status)
    IN  IF status # NULL /\ The(status) # ""
        THEN Limit(OrderByScheduledTime(SelectSeq(db, Matches)), limit)
        ELSE Limit(OrderByScheduledTime(db), limit)

\* mark_published that does not write the status
mark_published_fields_only(db, post_id, now, post_urn) ==
    LET db2 == [k \in DOMAIN db |->
                  IF db[k].id = post_id
                  THEN [db[k] EXCEPT !.published_at = Some(now),
                                     !.post_urn = Some(post_urn)]
                  ELSE db[k]]
    IN  [db |-> db2, res |-> get(db2, post_id)]

\* mark_published whose UPDATE has no WHERE clause
mark_published_every_row(db, post_id, now, post_urn) ==
    LET db2 == [k \in DOMAIN db |->
                  [db[k] EXCEPT !.status = "published",
                                !.published_at = Some(now),
                                !.post_urn = Some(post_urn)]]
    IN  [db |-> db2, res |-> get(db2, post_id)]

\* UPDATE ... SET status = 'published', published_at = ?, post_urn = ?
\* WHERE id = ?, then get
mark_published(db, post_id, now, post_urn) ==
    LET db2 == [k \in DOMAIN db |->
                  IF db[k].id = post_id
                  THEN [db[k] EXCEPT !.status = "published",
                                     !.published_at = Some(now),
                                     !.post_urn = Some(post_urn)]
                  ELSE db[k]]
    IN  [db |-> db2, res |-> get(db2, post_id)]

\* mark_failed that leaves the row pending, to be tried again
mark_failed_for_retry(db, post_id, error_message) ==
    LET db2 == [k \in DOMAIN db |->
                  IF db[k].id = post_id
                  THEN [db[k] EXCEPT !.error_message = Some(error_message),
                                     !.retry_count = @ + 1]
                  ELSE db[k]]
    IN  [db |-> db2, res |-> get(db2, post_id)]

\* UPDATE ... SET status = 'failed', error_message = ?,
\* retry_count = retry_count + 1 WHERE id = ?, then get
mark_failed(db, post_id, error_message) ==
    LET db2 == [k \in DOMAIN db |->
                  IF db[k].id = post_id
                  THEN [db[k] EXCEPT !.status = "failed",
                                     !.error_message = Some(error_message),
                                     !.retry_count = @ + 1]
                  ELSE db[k]]
    IN  [db |-> db2, res |-> get(db2, post_id)]

\* the check of cancel without the status test
cancel_refuses_missing(row) == row = NULL

\* cancel, line 107: not row or row["status"] != "pending"
cancel_refuses(row) == row = NULL \/ The(row).status # "pending"

\* cancel, lines 109-113
cancel_update(db, post_id) ==
    [k \in DOMAIN db |->
       IF db[k].id = post_id THEN [db[k] EXCEPT !.status = "cancelled"] ELSE db[k]]

\* uuid.uuid4(): an id no row has
uuid4(db) == {i \in Ids : get(db, i) = NULL}

\* the urn the remote system gives to its n-th post
Urn(n) == "urn:li:share:" \o ToString(n)


\* --------------------------------------------------------------- actions
Ret(op, id, res, error, line) ==
    [op |-> op, id |-> id, res |-> res, rows |-> <<>>, error |-> error,
     line |-> line]

\* what an operation that returns a list of rows returned
RetRows(op, rows) == [Ret(op, NULL, NULL, FALSE, "") EXCEPT !.rows = rows]

NoLocals(d) ==
    /\ due' = [due EXCEPT ![d] = <<>>]
    /\ idx' = [idx EXCEPT ![d] = 0]
    /\ result' = [result EXCEPT ![d] = NULL]

Init ==
    /\ clock = 0
    /\ posts = <<>>
    /\ calls = <<>>
    /\ pc = [d \in Runs |-> "idle"]
    /\ due = [d \in Runs |-> <<>>]
    /\ idx = [d \in Runs |-> 0]
    /\ result = [d \in Runs |-> NULL]
    /\ cpc = "idle"
    /\ cid = NULL
    /\ ret = Ret("none", NULL, NULL, FALSE, "")

\* time passes
Tick ==
    /\ clock < MaxClock
    /\ clock' = clock + 1
    /\ UNCHANGED <<posts, calls, pc, due, idx, result, cpc, cid, ret>>

\* schedule_post without the comparison with the current time
schedule_post_any_time(inp, scheduled_time) ==
    LET scheduled_dt == FromIsoFormat(ReplaceZ(scheduled_time))
    IN  /\ IF ~scheduled_dt.ok \/ ~scheduled_dt.aware
           THEN /\ ret' = Ret("schedule_post", NULL, NULL, TRUE, "exception")
                /\ posts' = posts
           ELSE \E post_id \in uuid4(posts) :
                  LET a == add(posts, post_id, IsoFormat(clock), inp.commentary,
                               scheduled_time, inp.url, inp.visibility)
                  IN  /\ ret' = Ret("schedule_post", Some(post_id), a.res, FALSE,
                                    "Post scheduled")
                      /\ posts' = a.db
        /\ UNCHANGED <<clock, calls, pc, due, idx, result, cpc, cid>>

\* tools/scheduler.py schedule_post: any exception (ValueError of
\* fromisoformat, TypeError of comparing a naive with an aware datetime,
\* IntegrityError of the INSERT) becomes an error response
schedule_post(inp, scheduled_time) ==
    LET scheduled_dt == FromIsoFormat(ReplaceZ(scheduled_time))
    IN  /\ IF ~scheduled_dt.ok \/ ~scheduled_dt.aware
           THEN /\ ret' = Ret("schedule_post", NULL, NULL, TRUE, "exception")
                /\ posts' = posts
           ELSE IF scheduled_dt.t <= clock
           THEN /\ ret' = Ret("schedule_post", NULL, NULL, TRUE,
                              "scheduled_time must be in the future")
                /\ posts' = posts
           ELSE \E post_id \in uuid4(posts) :
                  LET a == add(posts, post_id, IsoFormat(clock), inp.commentary,
                               scheduled_time, inp.url, inp.visibility)
                  IN  IF a.raised
                      THEN /\ ret' = Ret("schedule_post", NULL, NULL, TRUE, "exception")
                           /\ posts' = posts
                      ELSE /\ ret' = Ret("schedule_post", Some(post_id), a.res, FALSE,
                                         "Post scheduled")
                           /\ posts' = a.db
        /\ UNCHANGED <<clock, calls, pc, due, idx, result, cpc, cid>>

\* cancel_scheduled_post -> ScheduledPostsDB.cancel, lines 106-108: the read
\* and the refusal
cancel_read(post_id) ==
    /\ cpc = "idle"
    /\ IF cancel_refuses(get(posts, post_id))
       THEN /\ ret' = Ret("cancel", Some(post_id), NULL, TRUE,
                          "Post not found or not in pending status")
            /\ UNCHANGED <<cpc, cid>>
       ELSE /\ cpc' = "update"
            /\ cid' = Some(post_id)
            /\ ret' = ret
    /\ UNCHANGED <<clock, posts, calls, pc, due, idx, result>>

\* ScheduledPostsDB.cancel, lines 109-113: the UPDATE and its commit
cancel_write ==
    /\ cpc = "update"
    /\ posts' = cancel_update(posts, The(cid))
    /\ cpc' = "return"
    /\ UNCHANGED <<clock, calls, pc, due, idx, result, cid, ret>>

\* ScheduledPostsDB.cancel, line 114, and the tool's response
cancel_return ==
    /\ cpc = "return"
    /\ LET res == get(posts, The(cid))
       IN  ret' = IF res = NULL
                  THEN Ret("cancel", cid, NULL, TRUE,
                           "Post not found or not in pending status")
                  ELSE Ret("cancel", cid, res, FALSE,
                           "Scheduled post cancelled successfully")
    /\ cpc' = "idle"
    /\ cid' = NULL
    /\ UNCHANGED <<clock, posts, calls, pc, due, idx, result>>

\* a due selection that claims the rows it returns
select_due_claim(d) ==
    /\ pc[d] = "idle"
    /\ LET rows == get_due(posts, IsoFormat(clock))
       IN  IF rows = <<>>
           THEN /\ ret' = Ret("run_scheduler", NULL, NULL, FALSE,
                              "No posts due for publishing.")
                /\ UNCHANGED <<pc, due, idx, posts>>
           ELSE /\ due' = [due EXCEPT ![d] = rows]
                /\ idx' = [idx EXCEPT ![d] = 1]
                /\ pc' = [pc EXCEPT ![d] = "publish"]
                /\ posts' = [k \in DOMAIN posts |->
                               IF \E j \in DOMAIN rows : rows[j].id = posts[k].id
                               THEN [posts[k] EXCEPT !.status = "publishing"]
                               ELSE posts[k]]
                /\ ret' = ret
    /\ UNCHANGED <<clock, calls, result, cpc, cid>>

\* run_scheduler, lines 140-145: the due selection
select_due(d) ==
    /\ pc[d] = "idle"
    /\ LET rows == get_due(posts, IsoFormat(clock))
       IN  IF rows = <<>>
           THEN /\ ret' = Ret("run_scheduler", NULL, NULL, FALSE,
                              "No posts due for publishing.")
                /\ UNCHANGED <<pc, due, idx>>
           ELSE /\ due' = [due EXCEPT ![d] = rows]
                /\ idx' = [idx EXCEPT ![d] = 1]
                /\ pc' = [pc EXCEPT ![d] = "publish"]
                /\ ret' = ret
    /\ UNCHANGED <<clock, posts, calls, result, cpc, cid>>

\* the arguments of client.create_post, lines 157-160; no url is passed
create_post_args(post) ==
    [commentary |-> post.commentary, visibility |-> post.visibility, url |-> NULL]

\* run_scheduler, lines 157-160: the publish call of one loop iteration; it
\* returns the urn of the new remote post or raises.  The publisher's log
\* keeps, for each call, whether it raised
publish(d) ==
    /\ pc[d] = "publish"
    /\ LET post == due[d][idx[d]]
           call(raised) == [run |-> d, id |-> post.id,
                            args |-> create_post_args(post), raised |-> raised]
       IN  \/ /\ calls' = Append(calls, call(FALSE))
              /\ result' = [result EXCEPT ![d] =
                              Some([ok |-> TRUE,
                                    postUrn |-> Some(Urn(Len(calls) + 1)),
                                    err |-> NULL])]
           \/ \E e \in Errors :
                /\ calls' = Append(calls, call(TRUE))
                /\ result' = [result EXCEPT ![d] =
                                Some([ok |-> FALSE, postUrn |-> NULL,
                                      err |-> Some(e)])]
    /\ pc' = [pc EXCEPT ![d] = "record"]
    /\ UNCHANGED <<clock, posts, due, idx, cpc, cid, ret>>

\* the end of one loop iteration: the next item, or the end of the pass
next_item(d) ==
    IF idx[d] < Len(due[d])
    THEN /\ idx' = [idx EXCEPT ![d] = @ + 1]
         /\ pc' = [pc EXCEPT ![d] = "publish"]
         /\ UNCHANGED due
         /\ result' = [result EXCEPT ![d] = NULL]
    ELSE /\ pc' = [pc EXCEPT ![d] = "idle"]
         /\ NoLocals(d)

\* the recording step when a publish error ends the pass
record_abort(d) ==
    /\ pc[d] = "record"
    /\ LET post == due[d][idx[d]]
           r    == The(result[d])
       IN  IF r.ok
           THEN LET m == mark_published(posts, post.id, IsoFormat(clock), The(r.postUrn))
                IN  /\ posts' = m.db
                    /\ ret' = Ret("run_scheduler", Some(post.id), NULL, FALSE,
                                  "Published: " \o The(r.postUrn))
                    /\ next_item(d)
           ELSE LET m == mark_failed(posts, post.id, The(r.err))
                IN  /\ posts' = m.db
                    /\ ret' = Ret("run_scheduler", Some(post.id), NULL, FALSE,
                                  "Failed: " \o The(r.err))
                    /\ pc' = [pc EXCEPT ![d] = "idle"]
                    /\ NoLocals(d)
    /\ UNCHANGED <<clock, calls, cpc, cid>>

\* run_scheduler, lines 161-165: the outcome of the iteration is recorded.
\* mark_published is called inside the try block: when its UPDATE raises
\* (the database is locked by another process), the except clause of line
\* 163 catches that error like a publish error and calls mark_failed with
\* its text
record(d) ==
    /\ pc[d] = "record"
    /\ LET post == due[d][idx[d]]
           r    == The(result[d])
       IN  IF r.ok
           THEN \/ LET m == mark_published(posts, post.id, IsoFormat(clock),
                                           The(r.postUrn))
                   IN  /\ posts' = m.db
                       /\ ret' = Ret("run_scheduler", Some(post.id), NULL, FALSE,
                                     "Published: " \o The(r.postUrn))
                \/ \E e \in StorageErrors :
                     LET m == mark_failed(posts, post.id, e)
                     IN  /\ posts' = m.db
                         /\ ret' = Ret("run_scheduler", Some(post.id), NULL, FALSE,
                                       "Failed: " \o e)
           ELSE LET m == mark_failed(posts, post.id, The(r.err))
                IN  /\ posts' = m.db
                    /\ ret' = Ret("run_scheduler", Some(post.id), NULL, FALSE,
                                  "Failed: " \o The(r.err))
    /\ next_item(d)
    /\ UNCHANGED <<clock, calls, cpc, cid>>

\* list_scheduled_posts -> ScheduledPostsDB.list: the arguments go to the
\* query as they are
list_scheduled_posts(status, limit) ==
    /\ ret' = RetRows("list", list(posts, status, limit))
    /\ UNCHANGED <<clock, posts, calls, pc, due, idx, result, cpc, cid>>

\* ------------------------------------- ScheduledPostsDB called directly
\* db.add(...), as tests/test_tools.py calls it: no check of its arguments
db_add(inp, scheduled_time) ==
    /\ \E post_id \in uuid4(posts) :
         LET a == add(posts, post_id, IsoFormat(clock), inp.commentary,
                      scheduled_time, inp.url, inp.visibility)
         IN  /\ posts' = a.db
             /\ ret' = Ret("add", Some(post_id), a.res, a.raised, "")
    /\ UNCHANGED <<clock, calls, pc, due, idx, result, cpc, cid>>

\* db.get_due()
db_get_due ==
    /\ ret' = RetRows("get_due", get_due(posts, IsoFormat(clock)))
    /\ UNCHANGED <<clock, posts, calls, pc, due, idx, result, cpc, cid>>

\* db.mark_published(post_id, post_urn)
db_mark_published(post_id, post_urn) ==
    /\ LET m == mark_published(posts, post_id, IsoFormat(clock), post_urn)
       IN  /\ posts' = m.db
           /\ ret' = Ret("mark_published", Some(post_id), m.res, FALSE, "")
    /\ UNCHANGED <<clock, calls, pc, due, idx, result, cpc, cid>>

\* db.mark_failed(post_id, error_message)
db_mark_failed(post_id, error_message) ==
    /\ LET m == mark_failed(posts, post_id, error_message)
       IN  /\ posts' = m.db
           /\ ret' = Ret("mark_failed", Some(post_id), m.res, FALSE, "")
    /\ UNCHANGED <<clock, calls, pc, due, idx, result, cpc, cid>>

\* ------------------------------------------------------- specifications
HasRow(i) == get(posts, i) # NULL
Row(i) == The(get(posts, i))

\* the deployed program: the MCP server's tools and overlapping scheduler
\* processes, every SQL statement atomic
Next ==
    \/ Tick
    \/ /\ Len(posts) < MaxRowsOverlap
       /\ \E inp \in Inputs, st \in SchedTimes : schedule_post(inp, st)
    \/ \E i \in Ids : cancel_read(i)
    \/ cancel_write
    \/ cancel_return
    \/ \E d \in Runs : select_due(d)
    \/ \E d \in Runs : publish(d)
    \/ \E d \in Runs : record(d)

Spec == Init /\ [][Next]_vars

\* no operation in progress
Quiet == cpc = "idle" /\ \A d \in Runs : pc[d] = "idle"

\* when passes do not overlap there is one scheduler process at a time
SeqRuns == {1}

\* the same program when operations do not overlap (one caller at a time,
\* each operation runs to completion; only time passes meanwhile)
SeqNext ==
    \/ Tick
    \/ Quiet /\ \E inp \in Inputs, st \in SchedTimes : schedule_post(inp, st)
    \/ Quiet /\ \E i \in Ids : cancel_read(i)
    \/ cancel_write
    \/ cancel_return
    \/ Quiet /\ \E d \in SeqRuns : select_due(d)
    \/ \E d \in SeqRuns : publish(d)
    \/ \E d \in SeqRuns : record(d)

SeqSpec == Init /\ [][SeqNext]_vars

\* the store used as a library: one caller invokes the methods of
\* ScheduledPostsDB one at a time with any arguments, and runs passes
DbNext ==
    \/ Tick
    \/ Quiet /\ \E inp \in DbInputs, st \in DbTimes : db_add(inp, st)
    \/ Quiet /\ \E i \in Ids : cancel_read(i)
    \/ cancel_write
    \/ cancel_return
    \/ Quiet /\ db_get_due
    \/ Quiet /\ \E i \in Ids, u \in Urns : db_mark_published(i, u)
    \/ /\ Quiet
       /\ \E i \in Ids, e \in Errors :
            /\ HasRow(i) => Row(i).retry_count < MaxRetry
            /\ db_mark_failed(i, e)
    \/ Quiet /\ \E s \in StatusFilters, n \in Limits : list_scheduled_posts(s, n)
    \/ Quiet /\ \E d \in SeqRuns : select_due(d)
    \/ \E d \in SeqRuns : publish(d)
    \/ \E d \in SeqRuns : record(d)

DbSpec == Init /\ [][DbNext]_vars


\* ------------------------------------------------------------- properties
CallsFor(i) == {k \in DOMAIN calls : calls[k].id = i}

\* C1: cancel(id) succeeds, returning the item with status cancelled, if and
\* only if the item exists and is pending; otherwise it returns nothing and
\* leaves the store unchanged; once an item is cancelled, every further cancel
\* of it is refused.  Operations do not overlap.
C1_Step ==
    /\ \* the check passes only for an existing pending item
       cpc = "idle" /\ cpc' = "update"
         => HasRow(The(cid')) /\ Row(The(cid')).status = "pending"
    /\ \* a refusal is for a missing or non-pending item and writes nothing
       cpc = "idle" /\ cpc' = "idle" /\ ret' # ret /\ ret'.op = "cancel"
         => /\ ~HasRow(The(ret'.id)) \/ Row(The(ret'.id)).status # "pending"
            /\ ret'.res = NULL /\ ret'.error
            /\ posts' = posts
    /\ \* a cancel that passed the check changes that item's status only
       cpc = "update" /\ cpc' = "return"
         => /\ Row(The(cid)).status = "pending"
            /\ posts' = [k \in DOMAIN posts |->
                           IF posts[k].id = The(cid)
                           THEN [posts[k] EXCEPT !.status = "cancelled"]
                           ELSE posts[k]]
    /\ \* and returns the item, now cancelled
       cpc = "return" /\ cpc' = "idle"
         => /\ ret'.op = "cancel" /\ ~ret'.error /\ ret'.id = cid
            /\ ret'.res = get(posts, The(cid))
            /\ The(ret'.res).status = "cancelled"
            /\ posts' = posts
    /\ \* a cancelled item stays cancelled and no cancel of it passes the check
       \A i \in Ids :
         HasRow(i) /\ Row(i).status = "cancelled"
           => /\ The(get(posts', i)).status = "cancelled"
              /\ ~(cpc = "idle" /\ cpc' = "update" /\ cid' = Some(i))

C1_CancelIffPending == [][C1_Step]_vars

\* a second cancel of a cancelled item has just been refused
C1_Witness ==
    /\ ret.op = "cancel" /\ ret.error
    /\ HasRow(The(ret.id)) /\ Row(The(ret.id)).status = "cancelled"


\* the values of now the selection is asked for: those the clock takes and
\* the next one
Instants == 0..(MaxClock + 1)
PendingDue(now) ==
    {k \in DOMAIN posts :
        posts[k].status = "pending" /\ TextLeq(posts[k].scheduled_time, now)}

C3_Step ==
    \A d \in Runs :
      /\ pc[d] = "record" /\ pc'[d] # "record" /\ idx[d] < Len(due[d])
           => pc'[d] = "publish" /\ idx'[d] = idx[d] + 1 /\ due'[d] = due[d]
      /\ pc[d] = "record" /\ pc'[d] = "idle"
           => \A j \in DOMAIN due[d] :
                /\ \E k \in DOMAIN calls :
                     calls[k].run = d /\ calls[k].id = due[d][j].id
                /\ The(get(posts', due[d][j].id)).status \in {"published", "failed"}

C3_FailureDoesNotAbort == [][C3_Step]_vars

\* a pass has ended in which the first item's publish call failed and the
\* second item's succeeded
C3_Witness ==
    /\ Quiet
    /\ \E k \in DOMAIN calls :
         /\ k + 1 \in DOMAIN calls
         /\ calls[k].run = calls[k + 1].run
         /\ calls[k].id # calls[k + 1].id
         /\ Row(calls[k].id).status = "failed"
         /\ Row(calls[k + 1].id).status = "published"
         /\ Row(calls[k + 1].id).published_at = Some(IsoFormat(clock))


\* the publish call for item i has been made and its outcome is not yet in
\* the store
Recording(i) ==
    \E d \in Runs : pc[d] = "record" /\ due[d][idx[d]].id = i

\* C4: when passes do not overlap, the publisher is invoked at most once per
\* item; the pass that attempts it leaves it published with post_urn the urn
\* the publisher returned, or failed with the error's text and retry_count 1;
\* and from then on no due selection returns the item, whatever the time.
C4_AtMostOncePerItem ==
    /\ \A i \in Ids :
         /\ Cardinality(CallsFor(i)) <= 1
         /\ \A k \in CallsFor(i) :
              \/ Recording(i) /\ Row(i).status = "pending"
              \/ /\ ~Recording(i)
                 /\ \/ /\ Row(i).status = "published"
                       /\ Row(i).post_urn = Some(Urn(k))
                       /\ Row(i).retry_count = 0
                    \/ /\ Row(i).status = "failed"
                       /\ Row(i).error_message
                            \in {Some(e) : e \in Errors \cup StorageErrors}
                       /\ Row(i).retry_count = 1
                 /\ \A t \in Instants :
                      LET res == get_due(posts, IsoFormat(t))
                      IN  \A j \in DOMAIN res : res[j].id # i
    /\ ret.op = "run_scheduler" /\ ret.id # NULL
         => \/ /\ Row(The(ret.id)).status = "published"
               /\ ret.line = "Published: " \o The(Row(The(ret.id)).post_urn)
            \/ /\ Row(The(ret.id)).status = "failed"
               /\ ret.line = "Failed: " \o The(Row(The(ret.id)).error_message)

\* a pass has found nothing due although a failed item is past its time
C4_Witness ==
    /\ ret.op = "run_scheduler" /\ ret.line = "No posts due for publishing."
    /\ \E i \in Ids :
         /\ HasRow(i)
         /\ Row(i).status = "failed" /\ Row(i).retry_count = 1
         /\ Cardinality(CallsFor(i)) = 1
         /\ TextLeq(Row(i).scheduled_time, IsoFormat(clock))

\* C5: published and cancelled are terminal under every interleaving of
\* cancel requests and passes: an item in one of them keeps its status.
C5_TerminalStates ==
    [][\A k \in DOMAIN posts :
         posts[k].status \in {"published", "cancelled"}
           => posts'[k].status = posts[k].status]_vars

\* C6: the due selection is a plain read: it changes no row, so the rows it
\* returned are still pending and a selection by another run at that moment
\* returns the same rows; two overlapping runs can therefore both invoke the
\* publisher for one item.
C6_SelectionIsPlainRead ==
    [][\A d \in Runs :
         pc[d] = "idle" /\ pc'[d] = "publish"
           => /\ posts' = posts
              /\ due'[d] # <<>>
              /\ get_due(posts', IsoFormat(clock)) = due'[d]]_vars

\* two runs have both invoked the publisher for the same item
C6_Witness ==
    \E k1, k2 \in DOMAIN calls :
      /\ k1 < k2
      /\ calls[k1].id = calls[k2].id
      /\ calls[k1].run # calls[k2].run

\* C7: published_at and post_urn are both set if and only if the status is
\* published.
C7_PublishedFieldsIff ==
    \A k \in DOMAIN posts :
      (posts[k].published_at # NULL /\ posts[k].post_urn # NULL)
        <=> posts[k].status = "published"

\* C8: the store refuses every transition from a non-pending state: a row
\* that is not pending is left unchanged, except that a failed row may fail
\* again.
C8_OnlyFromPending ==
    [][\A k \in DOMAIN posts :
         posts[k].status # "pending" /\ posts'[k] # posts[k]
           => posts[k].status = "failed" /\ posts'[k].status = "failed"]_vars

\* C9: every publish call carries the commentary, the visibility and the url
\* of the item it is made for.
C9_CallCarriesUrl ==
    \A k \in DOMAIN calls :
      /\ calls[k].args.commentary = Row(calls[k].id).commentary
      /\ calls[k].args.visibility = Row(calls[k].id).visibility
      /\ calls[k].args.url = Row(calls[k].id).url

\* C10: a successful creation returns get(id) of a new row whose id no row
\* had before, with status pending, retry_count 0, published_at, post_urn and
\* error_message unset and commentary, url, visibility and scheduled_time as
\* supplied; the rows that were there are unchanged.
C10_Step ==
    \A inp \in Inputs, st \in SchedTimes :
      posts' # posts /\ ret'.op = "schedule_post" /\ schedule_post(inp, st)
        => LET i == The(ret'.id)
               r == The(ret'.res)
           IN  /\ ~HasRow(i)
               /\ ret'.res = get(posts', i)
               /\ Len(posts') = Len(posts) + 1
               /\ SubSeq(posts', 1, Len(posts)) = posts
               /\ r.id = i
               /\ r.status = "pending"
               /\ r.retry_count = 0
               /\ r.published_at = NULL /\ r.post_urn = NULL /\ r.error_message = NULL
               /\ r.commentary = inp.commentary
               /\ r.url = inp.url
               /\ r.visibility = inp.visibility
               /\ r.scheduled_time = st

C10_CreateThenGet == [][C10_Step]_vars

\* a creation with a url has just returned, into a store that had a row
C10_Witness ==
    /\ ret.op = "schedule_post" /\ ~ret.error
    /\ Len(posts) = 2
    /\ ret.res = Some(posts[2])
    /\ posts[2].url # NULL
    /\ posts[2].url # posts[1].url

\* the row with id i is in no due selection of store db, whatever the time
NeverDue(db, i) ==
    \A t \in Instants :
      LET res == get_due(db, IsoFormat(t))
      IN  \A j \in DOMAIN res : res[j].id # i

\* row r with the fields that mark_failed(message) sets
Failed(r, message) ==
    [r EXCEPT !.status = "failed",
              !.error_message = Some(message),
              !.retry_count = r.retry_count + 1]

\* C11: mark_failed(id, message) on an existing row, called directly or by a
\* pass, adds exactly one to its retry_count, sets its status to failed and
\* its error_message to message, and changes nothing else; and a row that
\* mark_failed has been applied to (retry_count > 0) is in no due selection
\* for any now in any later state, whatever store operations and passes
\* follow.
C11_Step ==
    /\ \A i \in Ids, e \in Errors :
         HasRow(i) /\ ret'.op = "mark_failed" /\ db_mark_failed(i, e)
           => /\ ret'.res = Some(Failed(Row(i), e))
              /\ posts' = [k \in DOMAIN posts |->
                             IF posts[k].id = i THEN Failed(posts[k], e)
                             ELSE posts[k]]
    /\ \A d \in Runs :
         pc[d] = "record" /\ pc'[d] # "record" /\ ~The(result[d]).ok
           => LET i == due[d][idx[d]].id
              IN  posts' = [k \in DOMAIN posts |->
                              IF posts[k].id = i
                              THEN Failed(posts[k], The(The(result[d]).err))
                              ELSE posts[k]]
    /\ \A k \in DOMAIN posts :
         posts[k].retry_count > 0
           => /\ posts[k].status # "pending" /\ posts'[k].status # "pending"
              /\ posts'[k].retry_count >= posts[k].retry_count
              /\ NeverDue(posts, posts[k].id) /\ NeverDue(posts', posts[k].id)

C11_FailedNeverDueAgain == [][C11_Step]_vars

\* mark_failed has just returned a row that had failed before, and the row
\* is past its time
C11_Witness ==
    /\ ret.op = "mark_failed" /\ ret.res # NULL
    /\ The(ret.res).retry_count = 2
    /\ The(ret.res).status = "failed"
    /\ TextLeq(The(ret.res).scheduled_time, IsoFormat(clock))
    /\ get_due(posts, IsoFormat(clock)) = <<>>

\* row r with the fields that mark_published(urn) sets at time now
Published(r, now, urn) ==
    [r EXCEPT !.status = "published",
              !.published_at = Some(now),
              !.post_urn = Some(urn)]

\* C12: mark_published(id, urn) on an existing row, called directly or by a
\* pass, sets its status to published, its published_at to the time of the
\* call and its post_urn to urn, and changes nothing else; and a row that
\* mark_published has been applied to (post_urn set) is in no due selection
\* for any now in any later state.
C12_Step ==
    /\ \A i \in Ids, u \in Urns :
         HasRow(i) /\ ret'.op = "mark_published" /\ db_mark_published(i, u)
           => /\ ret'.res = Some(Published(Row(i), IsoFormat(clock), u))
              /\ The(ret'.res).published_at # NULL
              /\ posts' = [k \in DOMAIN posts |->
                             IF posts[k].id = i
                             THEN Published(posts[k], IsoFormat(clock), u)
                             ELSE posts[k]]
    /\ \A d \in Runs :
         pc[d] = "record" /\ pc'[d] # "record" /\ The(result[d]).ok
           /\ ret'.line = "Published: " \o The(The(result[d]).postUrn)
           => LET i == due[d][idx[d]].id
              IN  posts' = [k \in DOMAIN posts |->
                              IF posts[k].id = i
                              THEN Published(posts[k], IsoFormat(clock),
                                             The(The(result[d]).postUrn))
                              ELSE posts[k]]
    /\ \A k \in DOMAIN posts :
         posts[k].post_urn # NULL
           => /\ posts[k].status # "pending" /\ posts'[k].status # "pending"
              /\ posts'[k].post_urn # NULL /\ posts'[k].published_at # NULL
              /\ NeverDue(posts, posts[k].id) /\ NeverDue(posts', posts[k].id)

C12_PublishedNeverDueAgain == [][C12_Step]_vars

\* mark_published has just returned a row that had failed before, and the
\* row is past its time
C12_Witness ==
    /\ ret.op = "mark_published" /\ ret.res # NULL
    /\ The(ret.res).status = "published"
    /\ The(ret.res).post_urn \in {Some(u) : u \in Urns}
    /\ The(ret.res).retry_count > 0
    /\ TextLeq(The(ret.res).scheduled_time, IsoFormat(clock))
    /\ get_due(posts, IsoFormat(clock)) = <<>>

\* rows is ordered non-decreasing by scheduled_time, as the store compares
\* the column
Ascending(rows) ==
    \A j \in 1..(Len(rows) - 1) :
      TextLeq(rows[j].scheduled_time, rows[j + 1].scheduled_time)

Parsed == [st \in SchedTimes |-> FromIsoFormat(ReplaceZ(st))]

\* the scheduled_time string st is not a timestamp
Unparseable(st) == ~Parsed[st].ok

\* st is a timestamp without an offset: it cannot be compared with the
\* current time
Naive(st) == Parsed[st].ok /\ ~Parsed[st].aware

\* st is a timestamp with an offset whose instant is not after instant t
NotAfter(st, t) == Parsed[st].ok /\ Parsed[st].aware /\ Parsed[st].t <= t

\* C14: a schedule_post call whose scheduled_time is not a timestamp, or
\* cannot be compared with the current time, or is not strictly later than
\* the current time, returns an error response and leaves the store as it was.
C14_Step ==
    \A inp \in Inputs, st \in SchedTimes :
      ret'.op = "schedule_post" /\ clock' = clock /\ pc' = pc /\ cpc' = cpc
        /\ (Unparseable(st) \/ Naive(st) \/ NotAfter(st, clock))
        /\ schedule_post(inp, st)
        => /\ ret'.error
           /\ ret'.id = NULL /\ ret'.res = NULL
           /\ ret'.line =
                IF NotAfter(st, clock)
                THEN "scheduled_time must be in the future" ELSE "exception"
           /\ posts' = posts

C14_BadTimeRejected == [][C14_Step]_vars

\* at time 1 a request has been refused because its time is not in the
\* future, and the row stored before is all the store holds
C14_Witness ==
    /\ clock = 1
    /\ ret.op = "schedule_post" /\ ret.error
    /\ ret.line = "scheduled_time must be in the future"
    /\ Len(posts) = 1

\* C15: a creation request with empty commentary is refused and writes no
\* row: no successful schedule_post response is for an empty commentary, and
\* every row of the store has a non-empty commentary.
C15_NoEmptyCommentary ==
    /\ ret.op \in {"schedule_post", "add"} /\ ~ret.error
         => The(ret.res).commentary # ""
    /\ \A k \in DOMAIN posts : posts[k].commentary # ""

\* the rows of the store that the status filter s lets through
Matching(s) ==
    {k \in DOMAIN posts : s = NULL \/ posts[k].status = The(s)}

\* C16: list(status, limit) returns at most limit rows when limit is
\* positive, and for a limit of 0 or less its result is bounded: when more
\* than ListBound rows match, it does not return them all.
C16_ListBounded ==
    \A s \in StatusFilters, n \in Limits :
      LET res == list(posts, s, n)
      IN  /\ n > 0 => Len(res) <= n
          /\ n <= 0 /\ Cardinality(Matching(s)) > ListBound
               => Len(res) < Cardinality(Matching(s))

\* C17: mark_published and mark_failed called with an id that no row of the
\* store has return nothing (None), create no row and change no row.
C17_Step ==
    \A i \in Ids :
      /\ ret'.op = "mark_published" /\ ret'.id = Some(i) /\ ~HasRow(i)
           /\ (\E u \in Urns : db_mark_published(i, u))
           => ret'.res = NULL /\ ~ret'.error /\ posts' = posts
      /\ ret'.op = "mark_failed" /\ ret'.id = Some(i) /\ ~HasRow(i)
           /\ (\E e \in Errors : db_mark_failed(i, e))
           => ret'.res = NULL /\ ~ret'.error /\ posts' = posts

C17_MarkUnknownIdIsNoOp == [][C17_Step]_vars

\* mark_published has returned nothing for an id that is not in the store,
\* and the row the store holds is still pending
C17_Witness ==
    /\ ret.op = "mark_published" /\ ret.res = NULL
    /\ ~HasRow(The(ret.id))
    /\ Len(posts) = 1
    /\ posts[1].status = "pending" /\ posts[1].post_urn = NULL

\* C18: a pass records an item as failed only when the publish call for it
\* raised: when the call returned, the recording step does not leave the item
\* failed and does not count a retry (an error of the store while the success
\* is recorded is not turned into a publish failure).
C18_Step ==
    \A d \in Runs :
      pc[d] = "record" /\ pc'[d] # "record" /\ The(result[d]).ok
        => LET i == due[d][idx[d]].id
           IN  /\ The(get(posts', i)).status # "failed"
               /\ The(get(posts', i)).retry_count = Row(i).retry_count
               /\ The(get(posts', i)).error_message = Row(i).error_message

C18_FailedOnlyOnPublishError == [][C18_Step]_vars

\* C19: a pass selects its due rows once, with one value of now, in
\* ascending order of scheduled_time (as the store compares the column), and
\* keeps that list to its end; it handles the rows one after another in that
\* order: a publish call is made for the row at the loop's position only,
\* when every row before it in the list has had its call and has its outcome
\* in the store, and no row before it has a later scheduled_time.
C19_Step ==
    \A d \in Runs :
      /\ \* the selection: one query with the time of that moment
         pc[d] = "idle" /\ pc'[d] = "publish"
           => /\ due'[d] = get_due(posts, IsoFormat(clock))
              /\ Ascending(due'[d])
              /\ idx'[d] = 1
      /\ \* the list is not selected again while the pass runs
         pc[d] # "idle" /\ pc'[d] # "idle" => due'[d] = due[d]
      /\ \* a publish call is for the row at the loop's position, after the
         \* rows before it are done
         calls' # calls
           /\ calls'[Len(calls')].run = d
           => /\ pc[d] = "publish" /\ pc'[d] = "record"
              /\ calls' = Append(calls, calls'[Len(calls')])
              /\ calls'[Len(calls')].id = due[d][idx[d]].id
              /\ \A j \in 1..(idx[d] - 1) :
                   /\ TextLeq(due[d][j].scheduled_time,
                              due[d][idx[d]].scheduled_time)
                   /\ \E k \in DOMAIN calls : calls[k].id = due[d][j].id
                   /\ Row(due[d][j].id).status \in {"published", "failed"}
      /\ \* the outcome is recorded before the loop moves on, by one position
         pc[d] = "record" /\ pc'[d] # "record"
           => /\ The(get(posts', due[d][idx[d]].id)).status
                   \in {"published", "failed"}
              /\ \/ pc'[d] = "publish" /\ idx'[d] = idx[d] + 1
                 \/ pc'[d] = "idle" /\ idx[d] = Len(due[d])
      /\ pc[d] = "publish" => pc'[d] \in {"publish", "record"}

SelectedAt(i, t) ==
    LET res == get_due(posts, IsoFormat(t))
    IN  \E j \in DOMAIN res : res[j].id = i

\* C20: the due selection takes scheduled_time as an instant: a pending row
\* that schedule_post stored is selected at the current time exactly when the
\* instant its scheduled_time denotes is at or before the current instant,
\* and two pending rows whose strings denote the same instant are selected at
\* the same times.
C20_DueByInstant ==
    /\ \A k \in DOMAIN posts :
         posts[k].status = "pending"
           => (SelectedAt(posts[k].id, clock)
                 <=> Parsed[posts[k].scheduled_time].t <= clock)
    /\ \A k1, k2 \in DOMAIN posts :
         /\ posts[k1].status = "pending" /\ posts[k2].status = "pending"
         /\ Parsed[posts[k1].scheduled_time].t = Parsed[posts[k2].scheduled_time].t
         => \A t \in Instants :
              SelectedAt(posts[k1].id, t) <=> SelectedAt(posts[k2].id, t)

\* the publish calls for item i that raised
FailedCallsFor(i) == {k \in CallsFor(i) : calls[k].raised}

\* the failed publish calls for item i whose outcome is in the store: all of
\* them but the one a pass is about to record
RecordedFailuresFor(i) ==
    {k \in FailedCallsFor(i) :
        ~\E d \in Runs : /\ pc[d] = "record"
                         /\ due[d][idx[d]].id = i
                         /\ calls[k].run = d
                         /\ \A j \in FailedCallsFor(i) : calls[j].run = d => j <= k}

\* C21: in every state, the retry_count of each item is the number of publish
\* calls for that item that raised (and whose outcome the pass has recorded);
\* from one state to the next it never decreases.
C21_RetryCountIsFailedAttempts ==
    \A i \in Ids :
      HasRow(i) => Row(i).retry_count = Cardinality(RecordedFailuresFor(i))

\* the last response handed to a caller is the success of cancelling item i
CancelReturned(i) ==
    /\ ret.op = "cancel"
    /\ ret.id = Some(i)
    /\ ~ret.error

\* C22: once cancel has returned success for an item, no pass calls the
\* publisher for that item, not even a pass that selected its due items before
\* the cancel: no publish step is for an item whose cancellation has just been
\* reported to the caller.
C22_NoPublishAfterCancel ==
    [][\A d \in Runs :
         (pc[d] = "publish" /\ pc'[d] = "record")
           => ~CancelReturned(due[d][idx[d]].id)]_vars

=============================================================================
